---- MODULE Spec2Model ----
(***************************************************************************)
(* Wait-time collection pipelines of DSC190-Waittime-API-database.         *)
(*                                                                         *)
(*   web_scraper/queue_time_full_scrape.py                                 *)
(*       scrape_wait_times     one calendar page -> DataFrame or None      *)
(*       scrape_multiple_days  closed date range -> combined DataFrame     *)
(*   auto_collection_script.py                                             *)
(*       main, insert_into_db  live snapshot of the five target parks      *)
(*                                                                         *)
(* Three specifications share the module:                                  *)
(*   SpecScrape  one call of scrape_wait_times on a served page            *)
(*   Spec        one run of scrape_multiple_days                           *)
(*   SpecLive    one run of main() of the live collector                   *)
(*                                                                         *)
(* Conventions.  A text (Python str) is a sequence of one-character        *)
(* strings.  A Python call either returns or raises; an outcome record     *)
(* says which.  None is never mixed with another type in one field: a      *)
(* nullable value carries an isNone flag.                                  *)
(***************************************************************************)
EXTENDS Integers, Sequences, FiniteSets, TLC

\* ------------------------------------------------------------------ bounds
\* Matching tables served on one calendar page.
MaxTables == 3
\* Table rows served on one calendar page (over all its tables).
MaxRows == 3
\* Days between the earliest and the latest date of a range.
MaxDays == 3
\* Lands of one park's live JSON, and rides of one park (over all its lands).
MaxLands == 2
MaxRides == 2

\* ------------------------------------------------------------------- texts
Whitespace == {" "}

DigitChars == <<"0", "1", "2", "3", "4", "5", "6", "7", "8", "9">>

IsDigit(c) == \E i \in 1..10 : DigitChars[i] = c

DigitVal(c) == (CHOOSE i \in 1..10 : DigitChars[i] = c) - 1

\* str.strip(): leading and trailing whitespace removed.
RECURSIVE LStrip(_)
LStrip(t) ==
    IF t # <<>> /\ Head(t) \in Whitespace THEN LStrip(Tail(t)) ELSE t

RECURSIVE RStrip(_)
RStrip(t) ==
    IF t # <<>> /\ t[Len(t)] \in Whitespace
    THEN RStrip(SubSeq(t, 1, Len(t) - 1)) ELSE t

Strip(t) == RStrip(LStrip(t))

\* The value of a run of decimal digits.
RECURSIVE DecimalValue(_)
DecimalValue(t) ==
    IF t = <<>> THEN 0
    ELSE 10 * DecimalValue(SubSeq(t, 1, Len(t) - 1)) + DigitVal(t[Len(t)])

\* float(text) for the texts served here: whole-number texts (surrounding
\* whitespace allowed) convert, every other served text raises ValueError.
\* Served texts hold no sign, decimal point, exponent, "nan" or "inf".
FloatOf(text) ==
    LET s == Strip(text) IN
    IF s # <<>> /\ \A i \in 1..Len(s) : IsDigit(s[i])
    THEN [exc |-> "", val |-> DecimalValue(s)]
    ELSE [exc |-> "ValueError", val |-> 0]

\* n formatted with at least `width` digits, zero padded (strftime %Y %m %d).
RECURSIVE ZeroPad(_, _)
ZeroPad(n, width) ==
    IF width <= 1 /\ n < 10 THEN <<DigitChars[n + 1]>>
    ELSE ZeroPad(n \div 10, width - 1) \o <<DigitChars[(n % 10) + 1]>>

\* ----------------------------------------------------------- nullable float
NoneValue == [isNone |-> TRUE, val |-> 0]

FloatValue(v) == [isNone |-> FALSE, val |-> v]

\* -------------------------------------------------------------- HTML cells
\* A <td>: the text of its first nested <a> or <span> (tag "none" when it has
\* neither) and the text outside it.
Cell(tag, inner, own) == [tag |-> tag, inner |-> inner, own |-> own]

\* td.get_text(strip=True): the stripped text nodes, joined.
GetText(cell) ==
    IF cell.tag = "none" THEN Strip(cell.own)
    ELSE Strip(cell.own) \o Strip(cell.inner)

\* Lines 54-55: the anchor's text when the cell has an anchor.
RideNameOf(cols) ==
    IF cols[1].tag = "a" THEN Strip(cols[1].inner) ELSE GetText(cols[1])

\* Lines 58-59: the span's text when the cell has a span.
WaitTimeOf(cols) ==
    IF cols[2].tag = "span" THEN Strip(cols[2].inner) ELSE GetText(cols[2])

\* ---------------------------------------------------------- scrape results
ReturnNone == [raised |-> FALSE, exc |-> "", isNone |-> TRUE, rows |-> <<>>]

ReturnDataFrame(rows) ==
    [raised |-> FALSE, exc |-> "", isNone |-> FALSE, rows |-> rows]

Raise(e) == [raised |-> TRUE, exc |-> e, isNone |-> FALSE, rows |-> <<>>]

NotCalled == [raised |-> FALSE, exc |-> "not called", isNone |-> FALSE, rows |-> <<>>]

\* The local variable date_str: unbound until line 27 or 29 has run.
Unbound == [bound |-> FALSE, text |-> <<>>]

Bound(text) == [bound |-> TRUE, text |-> text]

\* Lines 24-29: the date of the URL's last three path segments, or today's.
DateStrOf(url_parts, now) ==
    IF Len(url_parts) >= 7
    THEN url_parts[Len(url_parts) - 2] \o <<"-">> \o url_parts[Len(url_parts) - 1]
         \o <<"-">> \o url_parts[Len(url_parts)]
    ELSE now

\* Position of ride_name in rides_data (a dict, in insertion order), 0 if absent.
IndexOfRide(rides_data, ride_name) ==
    IF \E i \in 1..Len(rides_data) : rides_data[i].Ride = ride_name
    THEN CHOOSE i \in 1..Len(rides_data) : rides_data[i].Ride = ride_name
    ELSE 0

\* InitRideEntry without the membership test of line 62.
InitRideEntryAlways(rides_data, ride_name, date_str) ==
    Append(rides_data,
           [Date |-> date_str, Ride |-> ride_name,
            AverageWaitTime |-> NoneValue, MaxWaitTime |-> NoneValue])

\* Lines 62-68: the entry of ride_name, created empty when it is new.
InitRideEntry(rides_data, ride_name, date_str) ==
    IF IndexOfRide(rides_data, ride_name) = 0
    THEN Append(rides_data,
                [Date |-> date_str, Ride |-> ride_name,
                 AverageWaitTime |-> NoneValue, MaxWaitTime |-> NoneValue])
    ELSE rides_data

\* AssignWaitTime with the second table's value written to the average column.
AssignWaitTimeOneColumn(rides_data, ride_name, idx, wait_time) ==
    LET k == IndexOfRide(rides_data, ride_name)
        f == FloatOf(wait_time)
    IN  IF idx = 0 \/ idx = 1
        THEN IF f.exc # "" THEN [exc |-> f.exc, rides |-> rides_data]
             ELSE [exc |-> "",
                   rides |-> [rides_data EXCEPT ![k].AverageWaitTime = FloatValue(f.val)]]
        ELSE [exc |-> "", rides |-> rides_data]

\* Lines 71-74: the wait time goes to the column of the table's position;
\* float() is evaluated for the first two tables only.
AssignWaitTime(rides_data, ride_name, idx, wait_time) ==
    LET k == IndexOfRide(rides_data, ride_name)
        f == FloatOf(wait_time)
    IN  IF idx = 0
        THEN IF f.exc # "" THEN [exc |-> f.exc, rides |-> rides_data]
             ELSE [exc |-> "",
                   rides |-> [rides_data EXCEPT ![k].AverageWaitTime = FloatValue(f.val)]]
        ELSE IF idx = 1
        THEN IF f.exc # "" THEN [exc |-> f.exc, rides |-> rides_data]
             ELSE [exc |-> "",
                   rides |-> [rides_data EXCEPT ![k].MaxWaitTime = FloatValue(f.val)]]
        ELSE [exc |-> "", rides |-> rides_data]

\* Lines 50-74: one <tr> of table idx.
ProcessRow(rides_data, idx, cols, date_str) ==
    IF Len(cols) >= 2
    THEN LET ride_name == RideNameOf(cols)
             wait_time == WaitTimeOf(cols)
         IN  AssignWaitTime(InitRideEntry(rides_data, ride_name, date_str),
                            ride_name, idx, wait_time)
    ELSE [exc |-> "", rides |-> rides_data]

\* Lines 50-74: the rows of table idx, in order, up to the first exception.
RECURSIVE ProcessRows(_, _, _, _)
ProcessRows(rides_data, idx, rows, date_str) ==
    IF rows = <<>> THEN [exc |-> "", rides |-> rides_data]
    ELSE LET r == ProcessRow(rides_data, idx, Head(rows), date_str)
         IN  IF r.exc # "" THEN r
             ELSE ProcessRows(r.rides, idx, Tail(rows), date_str)

\* Lines 41-74: the tables, in order; a table without <tbody> is passed over.
RECURSIVE ProcessTables(_, _, _, _)
ProcessTables(rides_data, tables, idx, date_str) ==
    IF idx >= Len(tables) THEN [exc |-> "", rides |-> rides_data]
    ELSE LET table == tables[idx + 1]
             r == IF table.tbody
                  THEN ProcessRows(rides_data, idx, table.rows, date_str)
                  ELSE [exc |-> "", rides |-> rides_data]
         IN  IF r.exc # "" THEN r
             ELSE ProcessTables(r.rides, tables, idx + 1, date_str)

\* Lines 86-91: both handlers print date_str, then return None.  Reading the
\* unbound local raises UnboundLocalError inside the handler, and an exception
\* raised in a handler is not caught by the same try statement.
ExceptHandler(date_str) ==
    IF date_str.bound THEN ReturnNone ELSE Raise("UnboundLocalError")

\* Lines 17-18: requests.get raises on a transport failure, raise_for_status
\* raises HTTPError for a 4xx or 5xx status.
FetchException(response) ==
    IF response.error # "" THEN response.error
    ELSE IF response.status >= 400 /\ response.status < 600 THEN "HTTPError"
    ELSE ""

\* Lines 6-91.
scrape_wait_times(url, response, now) ==
    IF FetchException(response) # "" THEN ExceptHandler(Unbound)
    ELSE LET date_str == Bound(DateStrOf(url, now))
             tables == response.tables
         IN  IF tables = <<>> THEN ReturnNone
             ELSE LET r == ProcessTables(<<>>, tables, 0, date_str.text)
                  IN  IF r.exc # "" THEN ExceptHandler(date_str)
                      ELSE IF r.rides = <<>> THEN ReturnNone
                      ELSE ReturnDataFrame(r.rides)

\* ---------------------------------------------------------- calendar dates
\* A datetime at midnight: [year, month, day].
Date(y, m, d) == [year |-> y, month |-> m, day |-> d]

IsLeap(y) == (y % 4 = 0 /\ y % 100 # 0) \/ y % 400 = 0

DaysInMonth(y, m) ==
    IF m = 2 THEN (IF IsLeap(y) THEN 29 ELSE 28)
    ELSE IF m \in {4, 6, 9, 11} THEN 30 ELSE 31

\* Line 132: date + timedelta(days=1).
NextDay(date) ==
    IF date.day < DaysInMonth(date.year, date.month)
    THEN Date(date.year, date.month, date.day + 1)
    ELSE IF date.month < 12 THEN Date(date.year, date.month + 1, 1)
    ELSE Date(date.year + 1, 1, 1)

RECURSIVE AddDays(_, _)
AddDays(date, n) == IF n = 0 THEN date ELSE AddDays(NextDay(date), n - 1)

\* Line 116: datetime comparison.
DateLE(a, b) ==
    \/ a.year < b.year
    \/ a.year = b.year /\ a.month < b.month
    \/ a.year = b.year /\ a.month = b.month /\ a.day <= b.day

\* Lines 118-122: the calendar URL of a day, as its '/'-separated parts.
CalendarUrl(park, date) ==
    <<"https:", "", "queue-times.com", "parks", park, "calendar",
      ZeroPad(date.year, 4), ZeroPad(date.month, 2), ZeroPad(date.day, 2)>>

\* Line 135: pd.concat(all_data, ignore_index=True): the frames' rows in order.
RECURSIVE Concat(_)
Concat(frames) ==
    IF frames = <<>> THEN <<>> ELSE Head(frames) \o Concat(Tail(frames))

\* ----------------------------------------------------------- served inputs
SeqsUpTo(S, n) == UNION {[1..k -> S] : k \in 0..n}

Table(tbody, rows) == [tbody |-> tbody, rows |-> rows]

RowA10 ==
    <<Cell("a", <<"A">>, <<>>), Cell("span", <<"1", "0">>, <<" ">>)>>

RowA25 ==
    <<Cell("none", <<>>, <<" ", "A", " ">>), Cell("none", <<>>, <<"2", "5">>)>>

RowB25 ==
    <<Cell("a", <<"B">>, <<" ">>), Cell("span", <<"2", "5">>, <<>>)>>

RowBNotNumeric ==
    <<Cell("none", <<>>, <<"B">>), Cell("none", <<>>, <<"n", "/", "a">>)>>

RowShort == <<Cell("a", <<"C">>, <<>>)>>

\* The rows a served table is made of.
RowPool == {RowA10, RowA25, RowB25, RowBNotNumeric, RowShort}

\* An HTTP exchange: the transport error requests.get raises ("" for none), the
\* status, and the tables of class "table is-fullwidth" in the body.
Response(error, status, tables) ==
    [error |-> error, status |-> status, tables |-> tables]

FailedResponses ==
    {Response("", 404, <<>>), Response("", 500, <<>>),
     Response("ConnectionError", 0, <<>>), Response("Timeout", 0, <<>>)}

Today == <<"2", "0", "2", "5", "-", "0", "6", "-", "1", "1">>

\* URLs handed to one scrape: a calendar URL and one with fewer than 7 parts.
ScrapeUrls ==
    {CalendarUrl(16, Date(2025, 6, 11)), <<"https:", "", "queue-times.com">>}

\* The calendar pages a day of a range scrape is answered with.
DayPages ==
    {<<>>,
     <<Table(TRUE, <<RowA10, RowB25>>), Table(TRUE, <<RowA25>>)>>,
     <<Table(TRUE, <<RowB25>>)>>,
     <<Table(TRUE, <<RowA10>>), Table(TRUE, <<RowBNotNumeric>>)>>}

DayResponses ==
    {Response("", 404, <<>>), Response("", 500, <<>>),
     Response("ConnectionError", 0, <<>>)}
    \cup {Response("", 200, p) : p \in DayPages}

BaseDates == {Date(2024, 2, 28), Date(2023, 12, 30), Date(2023, 2, 27)}

ParkIds == {16}

\* --------------------------------------------------------------- variables
VARIABLES
    spc, url, response, returned,
    pc, start, end, park_id, current_date, day_count, all_data, combined, calls,
    lpc, park_index, rows, wait_time_data, stored, sink_calls, fetches, failed_at,
    updated_seen, null_seen

scrapeVars == <<spc, url, response, returned>>

rangeVars ==
    <<pc, start, end, park_id, current_date, day_count, all_data, combined, calls>>

liveVars ==
    <<lpc, park_index, rows, wait_time_data, stored, sink_calls, fetches, failed_at,
      updated_seen, null_seen>>

vars == <<scrapeVars, rangeVars, liveVars>>

\* A table that was never returned.
NoTable == [isNone |-> TRUE, rows |-> <<>>]

DataFrame(records) == [isNone |-> FALSE, rows |-> records]

ScrapeIdle ==
    /\ spc = "idle"
    /\ url = <<>>
    /\ response = Response("", 0, <<>>)
    /\ returned = NotCalled

RangeIdle ==
    /\ pc = "idle"
    /\ start = Date(0, 0, 0)
    /\ end = Date(0, 0, 0)
    /\ park_id = 0
    /\ current_date = Date(0, 0, 0)
    /\ day_count = 0
    /\ all_data = <<>>
    /\ combined = NoTable
    /\ calls = <<>>

LiveIdle ==
    /\ lpc = "idle"
    /\ park_index = 0
    /\ rows = <<>>
    /\ wait_time_data = NoTable
    /\ stored = <<>>
    /\ sink_calls = 0
    /\ fetches = 0
    /\ failed_at = 0
    /\ updated_seen = 0
    /\ null_seen = FALSE

\* ------------------------------------------------- one scrape_wait_times call
RowsServed(tables) ==
    LET RECURSIVE Sum(_)
        Sum(i) == IF i = 0 THEN 0 ELSE Len(tables[i].rows) + Sum(i - 1)
    IN  Sum(Len(tables))

ScrapeInit ==
    /\ spc = "serving"
    /\ url \in ScrapeUrls
    /\ response \in FailedResponses \cup {Response("", 200, <<>>)}
    /\ returned = NotCalled
    /\ RangeIdle
    /\ LiveIdle

\* The server's page gains a matching table, with or without a <tbody>.
ServeTable ==
    /\ spc = "serving"
    /\ FetchException(response) = ""
    /\ Len(response.tables) < MaxTables
    /\ \E tbody \in BOOLEAN :
         response' = [response EXCEPT !.tables = Append(@, Table(tbody, <<>>))]
    /\ UNCHANGED <<spc, url, returned, rangeVars, liveVars>>

\* The page's last table gains a row.
ServeRow ==
    /\ spc = "serving"
    /\ response.tables # <<>>
    /\ response.tables[Len(response.tables)].tbody
    /\ RowsServed(response.tables) < MaxRows
    /\ \E row \in RowPool :
         response' = [response EXCEPT
                        !.tables[Len(response.tables)].rows = Append(@, row)]
    /\ UNCHANGED <<spc, url, returned, rangeVars, liveVars>>

\* scrape_wait_times(url) against the served exchange.
CallScrape ==
    /\ spc = "serving"
    /\ returned' = scrape_wait_times(url, response, Today)
    /\ spc' = "called"
    /\ UNCHANGED <<url, response, rangeVars, liveVars>>

ScrapeNext == ServeTable \/ ServeRow \/ CallScrape

SpecScrape == ScrapeInit /\ [][ScrapeNext]_vars

\* -------------------------------------------------- scrape_multiple_days run
\* Lines 106-115.
Init ==
    /\ pc = "loop"
    /\ park_id \in ParkIds
    /\ \E base \in BaseDates, i \in 0..(MaxDays - 1), j \in 0..(MaxDays - 1) :
         /\ start = AddDays(base, i)
         /\ end = AddDays(base, j)
    /\ current_date = start
    /\ day_count = 0
    /\ all_data = <<>>
    /\ combined = NoTable
    /\ calls = <<>>
    /\ ScrapeIdle
    /\ LiveIdle

\* Lines 116-132: one pass of the loop.  An exception leaving
\* scrape_wait_times leaves scrape_multiple_days too: nothing catches it.
ScrapeDay ==
    /\ pc = "loop"
    /\ DateLE(current_date, end)
    /\ \E resp \in DayResponses :
         LET df == scrape_wait_times(CalendarUrl(park_id, current_date), resp, Today)
         IN  /\ calls' = Append(calls, [date |-> current_date, resp |-> resp, df |-> df])
             /\ day_count' = day_count + 1
             /\ IF df.raised
                THEN /\ pc' = "raised"
                     /\ UNCHANGED <<all_data, current_date>>
                ELSE /\ pc' = pc
                     /\ all_data' = IF df.isNone THEN all_data
                                    ELSE Append(all_data, df.rows)
                     /\ current_date' = NextDay(current_date)
    /\ UNCHANGED <<start, end, park_id, combined, scrapeVars, liveVars>>

\* Lines 134-138: the loop has ended.
ReturnCombined ==
    /\ pc = "loop"
    /\ ~DateLE(current_date, end)
    /\ combined' = IF all_data # <<>> THEN DataFrame(Concat(all_data))
                   ELSE DataFrame(<<>>)
    /\ pc' = "returned"
    /\ UNCHANGED <<start, end, park_id, current_date, day_count, all_data, calls,
                   scrapeVars, liveVars>>

Next == ScrapeDay \/ ReturnCombined

Spec == Init /\ [][Next]_vars

\* ------------------------------------------------------ live collector data
\* auto_collection_script.py lines 7-13, in the dict's order.
targets ==
    <<[park_id |-> 16, park_name |-> "Disneyland"],
      [park_id |-> 17, park_name |-> "Disney California Adventure"],
      [park_id |-> 42, park_name |-> "Six Flags Magic Mountain"],
      [park_id |-> 61, park_name |-> "Knott' Berry Farm"],
      [park_id |-> 66, park_name |-> "Universal Studios Hollywood"]>>

\* Lines 15-23: keys 0..6 are positions 1..7.
day_of_week_map ==
    <<"Monday", "Tuesday", "Wednesday", "Thursday", "Friday", "Saturday", "Sunday">>

\* A last_updated of the API: ISO-8601 with the literal UTC marker.
TimestampZ ==
    <<"2", "0", "2", "4", "-", "0", "2", "-", "2", "9", "T", "1", "8", ":",
      "3", "0", ":", "0", "5", ".", "0", "0", "0", "Z">>

\* Line 37: ts.replace("Z", "+00:00").
RECURSIVE ReplaceZ(_)
ReplaceZ(ts) ==
    IF ts = <<>> THEN <<>>
    ELSE IF Head(ts) = "Z" THEN <<"+", "0", "0", ":", "0", "0">> \o ReplaceZ(Tail(ts))
    ELSE <<Head(ts)>> \o ReplaceZ(Tail(ts))

\* Line 37: datetime.fromisoformat of YYYY-MM-DDTHH:MM:SS.fff+HH:MM; the API's
\* timestamps are well formed, so no ValueError is modelled.
FromIsoFormat(s) ==
    [year |-> DecimalValue(SubSeq(s, 1, 4)),
     month |-> DecimalValue(SubSeq(s, 6, 7)),
     day |-> DecimalValue(SubSeq(s, 9, 10)),
     hour |-> DecimalValue(SubSeq(s, 12, 13)),
     minute |-> DecimalValue(SubSeq(s, 15, 16)),
     second |-> DecimalValue(SubSeq(s, 18, 19)),
     utcoffset |-> 60 * DecimalValue(SubSeq(s, Len(s) - 4, Len(s) - 3))
                   + DecimalValue(SubSeq(s, Len(s) - 1, Len(s)))]

\* datetime.weekday(): 0 is Monday.
Weekday(dt) ==
    LET t == <<0, 3, 2, 5, 0, 3, 5, 1, 4, 6, 2, 4>>
        y == IF dt.month < 3 THEN dt.year - 1 ELSE dt.year
        sunday0 == (y + (y \div 4) - (y \div 100) + (y \div 400)
                    + t[dt.month] + dt.day) % 7
    IN  (sunday0 + 6) % 7

\* Lines 37-49: the row of a ride whose last_updated is ts.
RowOf(park_name, ride, ts) ==
    LET dt == FromIsoFormat(ReplaceZ(ts))
        dow == day_of_week_map[Weekday(dt) + 1]
    IN  [park |-> park_name, ride |-> ride.name, wait_time |-> ride.wait_time,
         day_of_week |-> dow, timestamp |-> dt,
         time |-> [hour |-> dt.hour, minute |-> dt.minute, second |-> dt.second],
         month |-> dt.month, year |-> dt.year]

\* RideRows without the skip of lines 34-35: a ride never updated gets a row
\* stamped with a stand-in timestamp.
RECURSIVE RideRowsNoSkip(_, _)
RideRowsNoSkip(park_name, rides) ==
    IF rides = <<>> THEN <<>>
    ELSE LET ride == Head(rides)
             ts == ride.last_updated
         IN  <<RowOf(park_name, ride, IF ts.isNone THEN TimestampZ ELSE ts.text)>>
             \o RideRowsNoSkip(park_name, Tail(rides))

\* Lines 32-50: the rides of one land; a ride without last_updated is skipped.
RECURSIVE RideRows(_, _)
RideRows(park_name, rides) ==
    IF rides = <<>> THEN <<>>
    ELSE LET ride == Head(rides)
             ts == ride.last_updated
         IN  IF ts.isNone THEN RideRows(park_name, Tail(rides))
             ELSE <<RowOf(park_name, ride, ts.text)>>
                  \o RideRows(park_name, Tail(rides))

\* Lines 31-50: the lands of one park.
RECURSIVE LandRows(_, _)
LandRows(park_name, lands) ==
    IF lands = <<>> THEN <<>>
    ELSE RideRows(park_name, Head(lands).rides) \o LandRows(park_name, Tail(lands))

\* Lines 29-31: requests.get raises on a transport failure, .json() on a body
\* that is not JSON, parks['lands'] on a JSON object without that key.
LiveException(resp) ==
    IF resp.error # "" THEN resp.error
    ELSE IF ~resp.json.hasLands THEN "KeyError"
    ELSE ""

NoTimestamp == [isNone |-> TRUE, text |-> <<>>]

\* The rides a served land is made of: one updated, one never updated.
RidePool ==
    {[name |-> "Space Mountain", wait_time |-> 45,
      last_updated |-> [isNone |-> FALSE, text |-> TimestampZ]],
     [name |-> "Matterhorn Bobsleds", wait_time |-> 0,
      last_updated |-> NoTimestamp]}

LandPool == {[rides |-> r] : r \in SeqsUpTo(RidePool, MaxRides)}

LiveResponse(error, hasLands, lands) ==
    [error |-> error, json |-> [hasLands |-> hasLands, lands |-> lands]]

\* The rides of a park's JSON, land after land.
RECURSIVE RidesOf(_)
RidesOf(lands) ==
    IF lands = <<>> THEN <<>> ELSE Head(lands).rides \o RidesOf(Tail(lands))

ParkLands ==
    {l \in SeqsUpTo(LandPool, MaxLands) : Len(RidesOf(l)) <= MaxRides}

LiveResponses ==
    {LiveResponse("ConnectionError", FALSE, <<>>),
     LiveResponse("JSONDecodeError", FALSE, <<>>),
     LiveResponse("", FALSE, <<>>)}
    \cup {LiveResponse("", TRUE, l) : l \in ParkLands}

\* What the database does with one insert_into_db call.
DbOutcomes == {"ok", "connect_error", "execute_error"}

\* How many rides of a park's JSON carry a last_updated.
UpdatedRides(lands) ==
    Cardinality({i \in 1..Len(RidesOf(lands)) : ~RidesOf(lands)[i].last_updated.isNone})

\* Whether some ride of a park's JSON has a null last_updated.
HasNullRide(lands) ==
    \E i \in 1..Len(RidesOf(lands)) : RidesOf(lands)[i].last_updated.isNone

\* --------------------------------------------------------- live collector run
\* Line 26.
LiveInit ==
    /\ lpc = "running"
    /\ park_index = 1
    /\ rows = <<>>
    /\ wait_time_data = NoTable
    /\ stored = <<>>
    /\ sink_calls = 0
    /\ fetches = 0
    /\ failed_at = 0
    /\ updated_seen = 0
    /\ null_seen = FALSE
    /\ ScrapeIdle
    /\ RangeIdle

\* FetchPark with the fetch failure caught and the loop going on.
FetchParkCaught ==
    /\ lpc = "running"
    /\ park_index <= Len(targets)
    /\ \E resp \in LiveResponses :
         /\ fetches' = fetches + 1
         /\ park_index' = park_index + 1
         /\ IF LiveException(resp) # ""
            THEN /\ failed_at' = park_index
                 /\ UNCHANGED <<lpc, rows, updated_seen, null_seen>>
            ELSE /\ rows' = rows \o LandRows(targets[park_index].park_name,
                                             resp.json.lands)
                 /\ updated_seen' = updated_seen + UpdatedRides(resp.json.lands)
                 /\ null_seen' = (null_seen \/ HasNullRide(resp.json.lands))
                 /\ UNCHANGED <<lpc, failed_at>>
    /\ UNCHANGED <<wait_time_data, stored, sink_calls, scrapeVars, rangeVars>>

\* Lines 28-50: one pass of the loop over targets.  Nothing catches an
\* exception of the fetch: it leaves main().
FetchPark ==
    /\ lpc = "running"
    /\ park_index <= Len(targets)
    /\ \E resp \in LiveResponses :
         /\ fetches' = fetches + 1
         /\ IF LiveException(resp) # ""
            THEN /\ lpc' = "raised"
                 /\ failed_at' = park_index
                 /\ UNCHANGED <<park_index, rows, updated_seen, null_seen>>
            ELSE /\ rows' = rows \o LandRows(targets[park_index].park_name,
                                             resp.json.lands)
                 /\ updated_seen' = updated_seen + UpdatedRides(resp.json.lands)
                 /\ null_seen' = (null_seen \/ HasNullRide(resp.json.lands))
                 /\ park_index' = park_index + 1
                 /\ UNCHANGED <<lpc, failed_at>>
    /\ UNCHANGED <<wait_time_data, stored, sink_calls, scrapeVars, rangeVars>>

\* Lines 52-57 and 60-90: the rows become wait_time_data, handed to
\* insert_into_db; the inserts are durable on commit (line 88) only.
InsertIntoDb ==
    /\ lpc = "running"
    /\ park_index > Len(targets)
    /\ wait_time_data' = DataFrame(rows)
    /\ sink_calls' = sink_calls + 1
    /\ \E db \in DbOutcomes :
         IF db = "ok"
         THEN /\ stored' = stored \o rows
              /\ lpc' = "done"
         ELSE /\ stored' = stored
              /\ lpc' = "raised"
    /\ UNCHANGED <<park_index, rows, fetches, failed_at, updated_seen, null_seen,
                   scrapeVars, rangeVars>>

LiveNext == FetchPark \/ InsertIntoDb

SpecLive == LiveInit /\ [][LiveNext]_vars

\* ------------------------------------------------- what a served page lists
\* What a reader of the page sees in each row of RowPool: the ride it names and
\* the minutes it shows (a row of one cell lists nothing).
Listing(row) ==
    IF row = RowA10 THEN [listed |-> TRUE, ride |-> <<"A">>, numeric |-> TRUE, minutes |-> 10]
    ELSE IF row = RowA25 THEN [listed |-> TRUE, ride |-> <<"A">>, numeric |-> TRUE, minutes |-> 25]
    ELSE IF row = RowB25 THEN [listed |-> TRUE, ride |-> <<"B">>, numeric |-> TRUE, minutes |-> 25]
    ELSE IF row = RowBNotNumeric
    THEN [listed |-> TRUE, ride |-> <<"B">>, numeric |-> FALSE, minutes |-> 0]
    ELSE [listed |-> FALSE, ride |-> <<>>, numeric |-> FALSE, minutes |-> 0]

RideNames == {<<"A">>, <<"B">>, <<"C">>}

\* The rows of the table at position pos (1 is the first) that list `name`.
ListingRows(tables, pos, name) ==
    IF pos <= Len(tables) /\ tables[pos].tbody
    THEN {k \in 1..Len(tables[pos].rows) :
            Listing(tables[pos].rows[k]).listed
            /\ Listing(tables[pos].rows[k]).ride = name}
    ELSE {}

ListedIn(tables, pos, name) == ListingRows(tables, pos, name) # {}

\* The minutes of the last row of table pos that lists `name`.
LastMinutes(tables, pos, name) ==
    LET ks == ListingRows(tables, pos, name)
        last == CHOOSE k \in ks : \A j \in ks : j <= k
    IN  Listing(tables[pos].rows[last]).minutes

\* A cell of the first two tables that float() cannot convert.
HasNonNumericCell(tables) ==
    \E pos \in 1..2 :
        /\ pos <= Len(tables)
        /\ tables[pos].tbody
        /\ \E k \in 1..Len(tables[pos].rows) :
               Listing(tables[pos].rows[k]).listed
               /\ ~Listing(tables[pos].rows[k]).numeric

ScrapeReturnedTable == spc = "called" /\ ~returned.raised /\ ~returned.isNone

RecordsOf(name) ==
    {i \in 1..Len(returned.rows) : returned.rows[i].Ride = name}

\* ---------------------------------------------------------------- claims
\* C1: scrape_wait_times never lets an exception escape: for a 404, any other
\* HTTP or transport failure, a page without matching tables or a non-numeric
\* wait cell, the call returns normally, with None.
C1_NoExceptionEscapes ==
    spc = "called" =>
        /\ ~returned.raised
        /\ (FetchException(response) # ""
            \/ response.tables = <<>>
            \/ HasNonNumericCell(response.tables)) => returned.isNone

\* C4: a day's result holds at most one record per ride name, and a ride
\* listed in the first and in the second table has its one record carry the
\* first table's value as average and the second table's value as max.
C4_OneRecordPerRide ==
    ScrapeReturnedTable =>
        /\ \A name \in RideNames : Cardinality(RecordsOf(name)) <= 1
        /\ \A name \in RideNames :
               (ListedIn(response.tables, 1, name) /\ ListedIn(response.tables, 2, name))
               => \E i \in RecordsOf(name) :
                      /\ returned.rows[i].AverageWaitTime
                           = FloatValue(LastMinutes(response.tables, 1, name))
                      /\ returned.rows[i].MaxWaitTime
                           = FloatValue(LastMinutes(response.tables, 2, name))

C4_Witness ==
    /\ ScrapeReturnedTable
    /\ ListedIn(response.tables, 1, <<"A">>)
    /\ ListedIn(response.tables, 2, <<"A">>)
    /\ \E i \in RecordsOf(<<"A">>) :
           /\ returned.rows[i].AverageWaitTime = FloatValue(10)
           /\ returned.rows[i].MaxWaitTime = FloatValue(25)

\* C5: when the day's scrape returns a table, a ride listed in only one of the
\* first two tables has a record: the listing table's column carries its
\* value, the other column is None.
C5_OneTableRideKept ==
    ScrapeReturnedTable =>
        \A name \in RideNames :
            /\ (ListedIn(response.tables, 1, name) /\ ~ListedIn(response.tables, 2, name))
               => \E i \in RecordsOf(name) :
                      /\ returned.rows[i].AverageWaitTime
                           = FloatValue(LastMinutes(response.tables, 1, name))
                      /\ returned.rows[i].MaxWaitTime = NoneValue
            /\ (ListedIn(response.tables, 2, name) /\ ~ListedIn(response.tables, 1, name))
               => \E i \in RecordsOf(name) :
                      /\ returned.rows[i].MaxWaitTime
                           = FloatValue(LastMinutes(response.tables, 2, name))
                      /\ returned.rows[i].AverageWaitTime = NoneValue

C5_Witness ==
    /\ ScrapeReturnedTable
    /\ ListedIn(response.tables, 2, <<"B">>)
    /\ ~ListedIn(response.tables, 1, <<"B">>)
    /\ ListedIn(response.tables, 1, <<"A">>)
    /\ \E i \in RecordsOf(<<"B">>) :
           /\ returned.rows[i].AverageWaitTime = NoneValue
           /\ returned.rows[i].MaxWaitTime = FloatValue(25)

\* The page with every table after the second removed.
FirstTwoTables(resp) ==
    [resp EXCEPT !.tables = IF Len(@) > 2 THEN SubSeq(@, 1, 2) ELSE @]

\* C6: tables at position three or later do not affect a day's result: it is
\* the result for the page with those tables removed.
C6_ExtraTablesIgnored ==
    spc = "called" =>
        returned = scrape_wait_times(url, FirstTwoTables(response), Today)

\* ------------------------------------------------------- range run claims
RunEnded == pc \in {"returned", "raised"}

HadData(i) == ~calls[i].df.raised /\ ~calls[i].df.isNone

\* The records of the days that returned data, day after day.
RECURSIVE SuccessfulRows(_)
SuccessfulRows(log) ==
    IF log = <<>> THEN <<>>
    ELSE (IF ~Head(log).df.raised /\ ~Head(log).df.isNone
          THEN Head(log).df.rows ELSE <<>>)
         \o SuccessfulRows(Tail(log))

\* The dates the Day Scraper was invoked for, in invocation order.
DatesCalled == [i \in 1..Len(calls) |-> calls[i].date]

\* The days of the closed interval [start, end], ascending.
DaysOfRange ==
    IF DateLE(start, end)
    THEN LET n == CHOOSE k \in 1..MaxDays : AddDays(start, k - 1) = end
         IN  [i \in 1..n |-> AddDays(start, i - 1)]
    ELSE <<>>

\* C2: a not-found (404) answer for a day yields zero records for that day and
\* does not abort the run: the later days are attempted, through the end date.
C2_NotFoundDoesNotAbort ==
    \A i \in 1..Len(calls) :
        calls[i].resp.status = 404 =>
            /\ ~calls[i].df.raised
            /\ calls[i].df.isNone
            /\ pc # "raised"
            /\ RunEnded => DatesCalled = DaysOfRange

\* C3: for any pattern of per-day outcomes the run returns a table holding
\* exactly the records of the days that returned data, in date order.
C3_CombinedIsSuccessfulDays ==
    RunEnded =>
        /\ pc = "returned"
        /\ ~combined.isNone
        /\ combined.rows = SuccessfulRows(calls)

\* C7: when no day produced data (an empty range, or every day failing by
\* not-found, transport failure or missing tables) the run returns an empty
\* table that is not None.
C7_EmptyTableWhenNoData ==
    (RunEnded /\ \A i \in 1..Len(calls) : ~HadData(i)) =>
        /\ pc = "returned"
        /\ combined = DataFrame(<<>>)

\* C10: for start <= end the Day Scraper is invoked exactly once for each day
\* of [start, end], in ascending order, and the loop ends after the end date.
C10_EveryDayOnce ==
    (RunEnded /\ DateLE(start, end)) =>
        /\ DatesCalled = DaysOfRange
        /\ day_count = Len(DaysOfRange)

\* --------------------------------------------------- live collector claims
UpdatedRideNames == {r.name : r \in {x \in RidePool : ~x.last_updated.isNone}}

\* C8: a ride with a null last_updated yields no row and every ride with a
\* last_updated yields exactly one; the table handed to the sink has as many
\* rows as the fetched JSON has rides with a last_updated.
C8_OneRowPerUpdatedRide ==
    /\ Len(rows) = updated_seen
    /\ \A i \in 1..Len(rows) : rows[i].ride \in UpdatedRideNames
    /\ sink_calls > 0 =>
           /\ ~wait_time_data.isNone
           /\ Len(wait_time_data.rows) = updated_seen

C8_Witness ==
    /\ lpc = "done"
    /\ null_seen
    /\ Len(wait_time_data.rows) >= 2
    /\ stored = wait_time_data.rows

\* C9: a fetch or parse failure for one park ends the run: no later park is
\* fetched, the sink is not invoked and nothing is stored, the rows of the
\* parks fetched before the failure included.
C9_FetchFailureAborts ==
    failed_at # 0 =>
        /\ lpc = "raised"
        /\ fetches = failed_at
        /\ sink_calls = 0
        /\ wait_time_data = NoTable
        /\ stored = <<>>

C9_Witness ==
    /\ failed_at = 3
    /\ lpc = "raised"
    /\ rows # <<>>
    /\ stored = <<>>

====
